---- MODULE Spec2Model ----
(***************************************************************************)
(* TaskScheduler: the in-memory reminder scheduler (src/src/Scheduler.cpp) *)
(* with the Task value type (src/src/Task.cpp) it schedules.               *)
(*                                                                         *)
(* The registry `events` is the std::multimap of Scheduler.hpp:41, kept as *)
(* the sequence of its values in iteration order (ascending key, insertion *)
(* order among equal keys).  Time is a discrete clock `now`, the value     *)
(* std::chrono::system_clock::now() returns to the operation that reads it.*)
(* A callback is known by what its invocation does: it returns, it throws  *)
(* a NotificationException (or a subclass), or it throws another           *)
(* std::exception; every exception type of the repository derives from     *)
(* std::runtime_error (Exceptions.hpp).  The commands of the command line  *)
(* (src/src/CLI.cpp), the tasks table they work on (src/src/Database.cpp)  *)
(* and the demo program (src/src/main.cpp) are modelled as far as they     *)
(* reach the scheduler.                                                    *)
(***************************************************************************)
EXTENDS Integers, Sequences, FiniteSets, TLC

VARIABLES
    now,                    \* system_clock::now(), in ticks
    events,                 \* Scheduler::events, in iteration order
    defaultReminderMessage, \* Scheduler::defaultReminderMessage
    maxConcurrentTasks,     \* Scheduler::maxConcurrentTasks
    hist,                   \* per scheduled event: callback invocations so far, fate
    last,                   \* the last call made on the scheduler, with its result
    held,                   \* the Task object the caller holds
    console,                \* what the last command of the CLI printed
    db,                     \* the rows of the tasks table, by id
    main                    \* where the demo program of main.cpp stands

vars == <<now, events, defaultReminderMessage, maxConcurrentTasks, hist, last,
          held, console, db, main>>

-----------------------------------------------------------------------------
(* Bounds of the model *)

MaxTime == 3          \* the clock runs 0..MaxTime
MaxScheduled == 3     \* scheduleTask calls accepted in one behaviour
MaxOffset == 1        \* reminderTimeBefore 0..MaxOffset (minutes)
TicksPerMinute == 2   \* clock ticks in one minute
CallsCap == 2         \* invocation counts are kept up to CallsCap
MaxLive == 2          \* scheduleTask calls accepted in SpecLive and SpecCommands

(* Program constants *)

DefaultMaxConcurrentTasks == 10

DefaultReminderMessage == "Task reminder"

-----------------------------------------------------------------------------
(* Result<bool> (Result.hpp); a bool return is kept as a value; an exception *)
(* that leaves the operation is kept as "thrown".                            *)

Ok(v) == [kind |-> "value", value |-> v, error |-> "none"]

Err(e) == [kind |-> "error", value |-> FALSE, error |-> e]

Thrown(x) == [kind |-> "thrown", value |-> FALSE, error |-> x]

has_value(r) == r.kind = "value"

-----------------------------------------------------------------------------
(* Task (Task.hpp, Task.cpp) *)

minutes(m) == m * TicksPerMinute

\* std::chrono::seconds and std::chrono::hours, in ticks.
seconds(s) == (s * TicksPerMinute) \div 60

hours(h) == minutes(60 * h)

getReminderTime_InTicks(task) == task.dueDate - task.reminderTimeBefore

getReminderTime(task) == task.dueDate - minutes(task.reminderTimeBefore)

Task(id, description, reminderTimeBefore, createdAt, dueDate) ==
    [id |-> id, description |-> description,
     reminderTimeBefore |-> reminderTimeBefore,
     createdAt |-> createdAt, dueDate |-> dueDate, completed |-> FALSE]

NoTask == Task(0, "", 0, 0, 0)

-----------------------------------------------------------------------------
(* Database (Database.cpp): the tasks table.  A row keeps what the         *)
(* commands and the scheduler read of a task: whether it exists, whether   *)
(* it is completed, and its due date.                                      *)

DbIds == 1..2

NoRow == [status |-> "absent", dueDate |-> 0]

\* SELECT ... FROM tasks WHERE completed = 0, as the set of ids.
getPendingTasks == { id \in DbIds : db[id].status = "pending" }

\* SELECT ... FROM tasks, as the set of ids.
getAllTasks == { id \in DbIds : db[id].status # "absent" }

\* The Task built from a row.
taskFromStatement(id) ==
    [Task(id, "d", 0, 0, db[id].dueDate) EXCEPT
        !.completed = (db[id].status = "completed")]

\* sqlite3_last_insert_rowid of an INSERT: one more than the largest rowid.
last_insert_rowid ==
    IF getAllTasks = {} THEN 1
    ELSE 1 + CHOOSE id \in getAllTasks : \A other \in getAllTasks : other <= id

-----------------------------------------------------------------------------
(* Callbacks (Scheduler::Callback, a std::function) *)

NullCallback == "null"

\* returns: the callback completes; NotificationException: it throws a
\* delivery failure; std::exception: it throws any other exception.
Callbacks == {"returns", "NotificationException", "std::exception"}

-----------------------------------------------------------------------------
(* Scheduler::Event and the multimap *)

Event(time, cb, t, eid) ==
    [triggerTime |-> time, callback |-> cb, task |-> t, eid |-> eid]

Insert_Unsorted(evs, e) == Append(evs, e)

Insert_UniqueKey(evs, e) ==
    LET k == Cardinality({ i \in 1..Len(evs) : evs[i].triggerTime <= e.triggerTime })
    IN  IF \E i \in 1..Len(evs) : evs[i].triggerTime = e.triggerTime
            THEN evs
        ELSE SubSeq(evs, 1, k) \o <<e>> \o SubSeq(evs, k + 1, Len(evs))

\* std::multimap::insert: after the last element whose key is not greater.
RECURSIVE Insert(_, _)
Insert(evs, e) ==
    IF evs = <<>> THEN <<e>>
    ELSE IF Head(evs).triggerTime <= e.triggerTime
        THEN <<Head(evs)>> \o Insert(Tail(evs), e)
        ELSE <<e>> \o evs

getPendingEventsCount == Len(events)

getMaxConcurrentTasks == maxConcurrentTasks

Eids(evs) == { evs[i].eid : i \in 1..Len(evs) }

-----------------------------------------------------------------------------
(* The record of a call: what was asked, what came back, the registry and *)
(* the capacity it found, the callback invocations it made in order.      *)

Call(op, task, cb, arg, result, fired) ==
    [op |-> op, task |-> task, callback |-> cb, arg |-> arg, result |-> result,
     fired |-> fired, pre |-> events, preMax |-> maxConcurrentTasks,
     preMessage |-> defaultReminderMessage]

NoCall ==
    [op |-> "none", task |-> NoTask, callback |-> NullCallback, arg |-> 0,
     result |-> Ok(TRUE), fired |-> <<>>, pre |-> <<>>,
     preMax |-> DefaultMaxConcurrentTasks, preMessage |-> DefaultReminderMessage]

Init ==
    /\ now = 0
    /\ events = <<>>
    /\ defaultReminderMessage = DefaultReminderMessage
    /\ maxConcurrentTasks = DefaultMaxConcurrentTasks
    /\ hist = <<>>
    /\ last = NoCall
    /\ held = NoTask
    /\ console = [text |-> "", count |-> 0]
    /\ db = [id \in DbIds |-> NoRow]
    /\ main = [pc |-> "message", start |-> 0, id2 |-> 2, i |-> 0]

-----------------------------------------------------------------------------
(* Scheduler::scheduleTask *)

CapacityReached_OffByOne(size, max) == size + 1 >= max

CapacityReached_Beyond(size, max) == size > max

CapacityReached(size, max) == size >= max

ReminderPassed_Strict(reminderTime, t) == reminderTime < t

ReminderPassed(reminderTime, t) == reminderTime <= t

scheduleTask_ReminderFirst(task, callback) ==
    LET reminderTime == getReminderTime(task)
        event == Event(reminderTime, callback, task, Len(hist) + 1)
    IN  IF ReminderPassed(reminderTime, now)
            THEN /\ last' = Call("scheduleTask", task, callback, 0,
                                 Thrown("TaskSchedulingException"), <<>>)
                 /\ UNCHANGED <<events, hist>>
        ELSE IF callback = NullCallback \/ CapacityReached(Len(events), maxConcurrentTasks)
            THEN /\ last' = Call("scheduleTask", task, callback, 0,
                                 Err("ConstraintViolation"), <<>>)
                 /\ UNCHANGED <<events, hist>>
        ELSE /\ events' = Insert(events, event)
             /\ hist' = Append(hist, [calls |-> 0, fate |-> "pending",
                                      callsAtRemoval |-> 0])
             /\ last' = Call("scheduleTask", task, callback, 0, Ok(TRUE), <<>>)

scheduleTask(task, callback) ==
    LET reminderTime == getReminderTime(task)
        event == Event(reminderTime, callback, task, Len(hist) + 1)
    IN  IF callback = NullCallback
            THEN /\ last' = Call("scheduleTask", task, callback, 0,
                                 Err("ConstraintViolation"), <<>>)
                 /\ UNCHANGED <<events, hist>>
        ELSE IF CapacityReached(Len(events), maxConcurrentTasks)
            THEN /\ last' = Call("scheduleTask", task, callback, 0,
                                 Err("ConstraintViolation"), <<>>)
                 /\ UNCHANGED <<events, hist>>
        ELSE IF ReminderPassed(reminderTime, now)
            THEN /\ last' = Call("scheduleTask", task, callback, 0,
                                 Thrown("TaskSchedulingException"), <<>>)
                 /\ UNCHANGED <<events, hist>>
        ELSE /\ events' = Insert(events, event)
             /\ hist' = Append(hist, [calls |-> 0, fate |-> "pending",
                                      callsAtRemoval |-> 0])
             /\ last' = Call("scheduleTask", task, callback, 0, Ok(TRUE), <<>>)

-----------------------------------------------------------------------------
(* Scheduler::checkAndTriggerEvents *)

IsDue_Always(e, t) == TRUE

IsDue_Strict(e, t) == e.triggerTime < t

IsDue(e, t) == e.triggerTime <= t

AfterCallback_NoCatch(outcome) ==
    IF outcome = "returns" THEN "erased" ELSE "rethrown"

AfterCallback_Swallow(outcome) == "erased"

\* The try block around the invocation: the event is erased after a return
\* and after a NotificationException; any other std::exception is rethrown
\* as a SchedulerException before the erase.
AfterCallback(outcome) ==
    IF outcome = "returns" THEN "erased"
    ELSE IF outcome = "NotificationException" THEN "erased"
    ELSE "rethrown"

\* The callback of e was invoked once more.
Invoked(h, e) ==
    [h EXCEPT ![e.eid].calls = IF @ < CallsCap THEN @ + 1 ELSE @]

\* events.erase(it): e left the registry.
Erased(h, e, fate) ==
    [h EXCEPT ![e.eid].fate = fate, ![e.eid].callsAtRemoval = h[e.eid].calls]

\* The while loop: `evs` is the registry from `it` on, `fired` the invocations
\* made so far, `h` the history.  Yields what is left from `it` on; the
\* SchedulerException is caught by the outer handler, which returns QueryFailed.
RECURSIVE TriggerLoop(_, _, _, _, _)
TriggerLoop(evs, t, message, fired, h) ==
    IF evs = <<>> \/ ~IsDue(Head(evs), t)
        THEN [events |-> evs, fired |-> fired, hist |-> h, result |-> Ok(TRUE)]
    ELSE LET e == Head(evs)
             outcome == e.callback
             entry == [event |-> e, message |-> message, outcome |-> outcome]
             h1 == Invoked(h, e)
         IN  IF AfterCallback(outcome) = "erased"
                 THEN TriggerLoop(Tail(evs), t, message, Append(fired, entry),
                                  Erased(h1, e, "fired"))
                 ELSE [events |-> evs, fired |-> Append(fired, entry), hist |-> h1,
                       result |-> Err("QueryFailed")]

checkAndTriggerEvents ==
    LET run == TriggerLoop(events, now, defaultReminderMessage, <<>>, hist)
    IN  /\ events' = run.events
        /\ hist' = run.hist
        /\ last' = Call("checkAndTriggerEvents", NoTask, NullCallback, 0,
                        run.result, run.fired)

-----------------------------------------------------------------------------
(* Scheduler::cancelTask *)

FindTask_Last(evs, taskId, i) ==
    LET matches == { j \in i..Len(evs) : evs[j].task.id = taskId }
    IN  IF matches = {} THEN 0
        ELSE CHOOSE j \in matches : \A k \in matches : k <= j

EraseAt_ToEnd(evs, i) == SubSeq(evs, 1, i - 1)

\* std::find_if: the index of the first event of the task, 0 for end().
RECURSIVE FindTask(_, _, _)
FindTask(evs, taskId, i) ==
    IF i > Len(evs) THEN 0
    ELSE IF evs[i].task.id = taskId THEN i
    ELSE FindTask(evs, taskId, i + 1)

EraseAt(evs, i) == SubSeq(evs, 1, i - 1) \o SubSeq(evs, i + 1, Len(evs))

InvalidTaskId_Negative(taskId) == taskId < 0

InvalidTaskId_BelowTwo(taskId) == taskId <= 1

\* if (taskId <= 0)
InvalidTaskId(taskId) == taskId <= 0

cancelTask(taskId) ==
    LET it == FindTask(events, taskId, 1)
    IN  IF InvalidTaskId(taskId)
            THEN /\ last' = Call("cancelTask", NoTask, NullCallback, taskId,
                                 Err("ConstraintViolation"), <<>>)
                 /\ UNCHANGED <<events, hist>>
        ELSE IF it = 0
            THEN /\ last' = Call("cancelTask", NoTask, NullCallback, taskId,
                                 Ok(FALSE), <<>>)
                 /\ UNCHANGED <<events, hist>>
        ELSE /\ events' = EraseAt(events, it)
             /\ hist' = Erased(hist, events[it], "cancelled")
             /\ last' = Call("cancelTask", NoTask, NullCallback, taskId,
                             Ok(TRUE), <<>>)

-----------------------------------------------------------------------------
(* Scheduler::setMaxConcurrentTasks, Scheduler::setDefaultReminderMessage *)

BelowPending_Never(maxTasks, size) == FALSE

BelowPending_OrEqual(maxTasks, size) == maxTasks <= size

BelowPending(maxTasks, size) == maxTasks < size

setMaxConcurrentTasks(maxTasks) ==
    IF maxTasks <= 0
        THEN /\ last' = Call("setMaxConcurrentTasks", NoTask, NullCallback, maxTasks,
                             Ok(FALSE), <<>>)
             /\ UNCHANGED maxConcurrentTasks
    ELSE IF BelowPending(maxTasks, Len(events))
        THEN /\ last' = Call("setMaxConcurrentTasks", NoTask, NullCallback, maxTasks,
                             Ok(FALSE), <<>>)
             /\ UNCHANGED maxConcurrentTasks
    ELSE /\ maxConcurrentTasks' = maxTasks
         /\ last' = Call("setMaxConcurrentTasks", NoTask, NullCallback, maxTasks,
                         Ok(TRUE), <<>>)

RejectedMessage_Never(message) == FALSE

\* if (message.empty())
RejectedMessage(message) == message = ""

setDefaultReminderMessage(message) ==
    IF RejectedMessage(message)
        THEN /\ last' = Call("setDefaultReminderMessage", NoTask, NullCallback, message,
                             Ok(FALSE), <<>>)
             /\ UNCHANGED defaultReminderMessage
    ELSE /\ defaultReminderMessage' = message
         /\ last' = Call("setDefaultReminderMessage", NoTask, NullCallback, message,
                         Ok(TRUE), <<>>)

-----------------------------------------------------------------------------
(* The Task object the caller holds: constructor, setters, completion.    *)
(* held = NoTask until a constructor call has succeeded.  The call record *)
(* keeps the constructor's arguments, or the object before a setter ran.  *)

InvalidTaskData_IdUnchecked(id, description, reminderTimeBefore, createdAt, dueDate) ==
    \/ description = ""
    \/ reminderTimeBefore < 0
    \/ dueDate <= createdAt

\* The four tests of the constructor, each of which throws.
InvalidTaskData(id, description, reminderTimeBefore, createdAt, dueDate) ==
    \/ id < 0
    \/ description = ""
    \/ reminderTimeBefore < 0
    \/ dueDate <= createdAt

NewTask(id, description, reminderTimeBefore, createdAt, dueDate) ==
    LET args == Task(id, description, reminderTimeBefore, createdAt, dueDate)
    IN  IF InvalidTaskData(id, description, reminderTimeBefore, createdAt, dueDate)
            THEN /\ last' = Call("Task", args, NullCallback, 0,
                                 Thrown("InvalidTaskDataException"), <<>>)
                 /\ UNCHANGED held
        ELSE /\ held' = args
             /\ last' = Call("Task", args, NullCallback, 0, Ok(TRUE), <<>>)

RejectedId_Negative(newId) == newId < 0

RejectedId(newId) == newId <= 0

setId(newId) ==
    IF RejectedId(newId)
        THEN /\ last' = Call("setId", held, NullCallback, newId, Ok(FALSE), <<>>)
             /\ UNCHANGED held
    ELSE /\ held' = [held EXCEPT !.id = newId]
         /\ last' = Call("setId", held, NullCallback, newId, Ok(TRUE), <<>>)

setDescription(newDescription) ==
    IF newDescription = ""
        THEN /\ last' = Call("setDescription", held, NullCallback, newDescription,
                             Ok(FALSE), <<>>)
             /\ UNCHANGED held
    ELSE /\ held' = [held EXCEPT !.description = newDescription]
         /\ last' = Call("setDescription", held, NullCallback, newDescription,
                         Ok(TRUE), <<>>)

setDueDate(newDueDate) ==
    IF newDueDate <= held.createdAt
        THEN /\ last' = Call("setDueDate", held, NullCallback, newDueDate,
                             Ok(FALSE), <<>>)
             /\ UNCHANGED held
    ELSE /\ held' = [held EXCEPT !.dueDate = newDueDate]
         /\ last' = Call("setDueDate", held, NullCallback, newDueDate,
                         Ok(TRUE), <<>>)

setReminderTimeBefore(m) ==
    IF m < 0
        THEN /\ last' = Call("setReminderTimeBefore", held, NullCallback, m,
                             Ok(FALSE), <<>>)
             /\ UNCHANGED held
    ELSE /\ held' = [held EXCEPT !.reminderTimeBefore = m]
         /\ last' = Call("setReminderTimeBefore", held, NullCallback, m,
                         Ok(TRUE), <<>>)

markCompleted ==
    /\ held' = [held EXCEPT !.completed = TRUE]
    /\ last' = Call("markCompleted", held, NullCallback, 0, Ok(TRUE), <<>>)

markIncomplete ==
    /\ held' = [held EXCEPT !.completed = FALSE]
    /\ last' = Call("markIncomplete", held, NullCallback, 0, Ok(TRUE), <<>>)

-----------------------------------------------------------------------------
(* Time passes between two calls; the record of the last call is dropped. *)

Tick ==
    /\ now < MaxTime
    /\ now' = now + 1
    /\ last' = NoCall
    /\ UNCHANGED <<events, defaultReminderMessage, maxConcurrentTasks, hist, held,
                   console, db, main>>

-----------------------------------------------------------------------------
(* Spec: the firing of events.  One task id, reminders at the due date,   *)
(* callbacks of every kind, scheduled, checked and cancelled in any order *)
(* as time passes.                                                        *)

FiringTasks == { Task(1, "d", 0, 0, due) : due \in 1..MaxTime }

ScheduleTask ==
    /\ Len(hist) < MaxScheduled
    /\ \E task \in FiringTasks, callback \in Callbacks : scheduleTask(task, callback)
    /\ UNCHANGED <<now, defaultReminderMessage, maxConcurrentTasks, held, console, db, main>>

CheckAndTriggerEvents ==
    /\ checkAndTriggerEvents
    /\ UNCHANGED <<now, defaultReminderMessage, maxConcurrentTasks, held, console, db, main>>

\* The caller cancels the task it scheduled.
CancelTask ==
    /\ cancelTask(1)
    /\ UNCHANGED <<now, defaultReminderMessage, maxConcurrentTasks, held, console, db, main>>

Next ==
    \/ ScheduleTask
    \/ CheckAndTriggerEvents
    \/ CancelTask
    \/ Tick

Spec == Init /\ [][Next]_vars

-----------------------------------------------------------------------------
(* SpecAdmission: what scheduleTask admits.  Tasks with and without a      *)
(* reminder offset, a callback or none, the capacity and the message set   *)
(* by the caller.                                                          *)

AdmissionTasks ==
    { Task(1, "d", r, 0, due) : r \in 0..MaxOffset, due \in 1..MaxTime }

AdmissionSchedule ==
    /\ Len(hist) < MaxScheduled
    /\ \E task \in AdmissionTasks, callback \in {"returns", NullCallback} :
          scheduleTask(task, callback)
    /\ UNCHANGED <<now, defaultReminderMessage, maxConcurrentTasks, held, console, db, main>>

AdmissionCancel ==
    /\ \E taskId \in 0..1 : cancelTask(taskId)
    /\ UNCHANGED <<now, defaultReminderMessage, maxConcurrentTasks, held, console, db, main>>

SetMaxConcurrentTasks ==
    /\ \E maxTasks \in (-1)..MaxScheduled : setMaxConcurrentTasks(maxTasks)
    /\ UNCHANGED <<now, events, defaultReminderMessage, hist, held, console, db, main>>

SetDefaultReminderMessage ==
    /\ \E message \in {"", "Late"} : setDefaultReminderMessage(message)
    /\ UNCHANGED <<now, events, maxConcurrentTasks, hist, held, console, db, main>>

NextAdmission ==
    \/ AdmissionSchedule
    \/ CheckAndTriggerEvents
    \/ AdmissionCancel
    \/ SetMaxConcurrentTasks
    \/ SetDefaultReminderMessage
    \/ Tick

SpecAdmission == Init /\ [][NextAdmission]_vars

-----------------------------------------------------------------------------
(* SpecFresh: a scheduler filled up to its capacity; no time passes. *)

FreshTasks == { Task(1, "d", 0, 0, due) : due \in 1..2 }

FreshSchedule ==
    /\ \E task \in FreshTasks : scheduleTask(task, "returns")
    /\ UNCHANGED <<now, defaultReminderMessage, maxConcurrentTasks, held, console, db, main>>

FreshSetMax ==
    /\ \E maxTasks \in {DefaultMaxConcurrentTasks - 1, DefaultMaxConcurrentTasks} :
          setMaxConcurrentTasks(maxTasks)
    /\ UNCHANGED <<now, events, defaultReminderMessage, hist, held, console, db, main>>

NextFresh ==
    \/ FreshSchedule
    \/ FreshSetMax

SpecFresh == Init /\ [][NextFresh]_vars

-----------------------------------------------------------------------------
(* SpecCancel: events of several tasks, task id 0 included (the Task      *)
(* constructor accepts it), cancelled by id; every callback returns.       *)

CancelTaskIds == 0..2

CancelTasks ==
    { Task(id, "d", 0, 0, due) : id \in CancelTaskIds, due \in 1..MaxTime }

CancelSchedule ==
    /\ Len(hist) < MaxScheduled
    /\ \E task \in CancelTasks : scheduleTask(task, "returns")
    /\ UNCHANGED <<now, defaultReminderMessage, maxConcurrentTasks, held, console, db, main>>

CancelById ==
    /\ \E taskId \in (-1)..2 : cancelTask(taskId)
    /\ UNCHANGED <<now, defaultReminderMessage, maxConcurrentTasks, held, console, db, main>>

NextCancel ==
    \/ CancelSchedule
    \/ CancelById
    \/ CheckAndTriggerEvents
    \/ Tick

SpecCancel == Init /\ [][NextCancel]_vars

-----------------------------------------------------------------------------
(* SpecCLI: the `schedule` and `check` commands of the command line.  The  *)
(* tasks come from the database, whose answer to getPendingTasks is an     *)
(* input; the notifiers wrap their failures in NotificationException.      *)

\* One line of std::cout, with the number printed in it (0 when none).
Printed(text, count) == [text |-> text, count |-> count]

\* bool to int, as in `result.value() > 0` and `std::cout << result.value()`.
BoolToInt(b) == IF b THEN 1 ELSE 0

\* CLI.cpp:678-688, what `check` prints for the Result<bool> it got.
CheckReport(result) ==
    IF ~has_value(result) THEN Printed("Error", 0)
    ELSE IF BoolToInt(result.value) > 0
        THEN Printed("Triggered N notifications.", BoolToInt(result.value))
    ELSE Printed("No notifications were due.", 0)

handleCheckEvents_Always(pendingTasks) ==
    /\ checkAndTriggerEvents
    /\ console' = CheckReport(last'.result)

\* pendingTasks is the answer of db->getPendingTasks(): "QueryFailed",
\* "empty" or "some".  The command calls the scheduler only in the last case.
handleCheckEvents(pendingTasks) ==
    IF pendingTasks = "QueryFailed"
        THEN /\ console' = Printed("Error", 0)
             /\ last' = NoCall
             /\ UNCHANGED <<events, hist>>
    ELSE IF pendingTasks = "empty"
        THEN /\ console' = Printed("No pending tasks to check.", 0)
             /\ last' = NoCall
             /\ UNCHANGED <<events, hist>>
    ELSE /\ checkAndTriggerEvents
         /\ console' = CheckReport(last'.result)

handleScheduleTask(task, notifier) ==
    /\ scheduleTask(task, notifier)
    /\ console' = IF has_value(last'.result)
                      THEN Printed("Task scheduled", 0)
                  ELSE Printed("Error", 0)

CliTasks == { Task(1, "d", 0, 0, due) : due \in 1..MaxTime }

HandleScheduleTask ==
    /\ Len(hist) < MaxScheduled
    /\ \E task \in CliTasks, notifier \in {"returns", "NotificationException"} :
          handleScheduleTask(task, notifier)
    /\ UNCHANGED <<now, defaultReminderMessage, maxConcurrentTasks, held, db, main>>

HandleCheckEvents ==
    /\ \E pendingTasks \in {"QueryFailed", "empty", "some"} :
          handleCheckEvents(pendingTasks)
    /\ UNCHANGED <<now, defaultReminderMessage, maxConcurrentTasks, held, db, main>>

NextCLI ==
    \/ HandleScheduleTask
    \/ HandleCheckEvents
    \/ Tick

SpecCLI == Init /\ [][NextCLI]_vars

-----------------------------------------------------------------------------
(* SpecTask: one Task object, constructed from arguments of every kind    *)
(* and then changed through its setters; the scheduler is not involved.   *)

TaskIdArgs == (-1)..2

DescriptionArgs == {"", "d", "e"}

OffsetArgs == (-1)..1

CreatedAtArgs == 0..1

DueDateArgs == 0..2

Construct ==
    /\ held = NoTask
    /\ \E id \in TaskIdArgs, description \in DescriptionArgs,
          reminderTimeBefore \in OffsetArgs, createdAt \in CreatedAtArgs,
          dueDate \in DueDateArgs :
          NewTask(id, description, reminderTimeBefore, createdAt, dueDate)
    /\ UNCHANGED <<now, events, defaultReminderMessage, maxConcurrentTasks, hist,
                   console, db, main>>

SetId ==
    /\ held # NoTask
    /\ \E newId \in TaskIdArgs : setId(newId)
    /\ UNCHANGED <<now, events, defaultReminderMessage, maxConcurrentTasks, hist,
                   console, db, main>>

SetDescription ==
    /\ held # NoTask
    /\ \E newDescription \in DescriptionArgs : setDescription(newDescription)
    /\ UNCHANGED <<now, events, defaultReminderMessage, maxConcurrentTasks, hist,
                   console, db, main>>

SetDueDate ==
    /\ held # NoTask
    /\ \E newDueDate \in DueDateArgs : setDueDate(newDueDate)
    /\ UNCHANGED <<now, events, defaultReminderMessage, maxConcurrentTasks, hist,
                   console, db, main>>

SetReminderTimeBefore ==
    /\ held # NoTask
    /\ \E m \in OffsetArgs : setReminderTimeBefore(m)
    /\ UNCHANGED <<now, events, defaultReminderMessage, maxConcurrentTasks, hist,
                   console, db, main>>

MarkCompleted ==
    /\ held # NoTask
    /\ markCompleted
    /\ UNCHANGED <<now, events, defaultReminderMessage, maxConcurrentTasks, hist,
                   console, db, main>>

MarkIncomplete ==
    /\ held # NoTask
    /\ markIncomplete
    /\ UNCHANGED <<now, events, defaultReminderMessage, maxConcurrentTasks, hist,
                   console, db, main>>

NextTask ==
    \/ Construct
    \/ SetId
    \/ SetDescription
    \/ SetDueDate
    \/ SetReminderTimeBefore
    \/ MarkCompleted
    \/ MarkIncomplete

SpecTask == Init /\ [][NextTask]_vars

-----------------------------------------------------------------------------
(* SpecCapture: the caller constructs a task, schedules it and goes on    *)
(* changing its own object while the scheduled copy waits and fires.      *)

MaxCaptured == 1      \* scheduleTask calls accepted in SpecCapture

CaptureConstruct ==
    /\ held = NoTask
    /\ \E reminderTimeBefore \in 0..MaxOffset, dueDate \in 1..MaxTime :
          NewTask(1, "d", reminderTimeBefore, 0, dueDate)
    /\ UNCHANGED <<now, events, defaultReminderMessage, maxConcurrentTasks, hist,
                   console, db, main>>

CaptureSchedule ==
    /\ held # NoTask
    /\ Len(hist) < MaxCaptured
    /\ scheduleTask(held, "returns")
    /\ UNCHANGED <<now, defaultReminderMessage, maxConcurrentTasks, held, console, db, main>>

CaptureSetDueDate ==
    /\ held # NoTask
    /\ \E newDueDate \in 1..MaxTime : setDueDate(newDueDate)
    /\ UNCHANGED <<now, events, defaultReminderMessage, maxConcurrentTasks, hist,
                   console, db, main>>

CaptureSetReminderTimeBefore ==
    /\ held # NoTask
    /\ \E m \in 0..MaxOffset : setReminderTimeBefore(m)
    /\ UNCHANGED <<now, events, defaultReminderMessage, maxConcurrentTasks, hist,
                   console, db, main>>

NextCapture ==
    \/ CaptureConstruct
    \/ CaptureSchedule
    \/ CaptureSetDueDate
    \/ CaptureSetReminderTimeBefore
    \/ MarkCompleted
    \/ CheckAndTriggerEvents
    \/ Tick

SpecCapture == Init /\ [][NextCapture]_vars

-----------------------------------------------------------------------------
(* SpecRetry: the polling loop.  A callback either returns or fails with  *)
(* a std::exception on every call; checkAndTriggerEvents is called again  *)
(* and again while time passes, and nothing is cancelled.                 *)

RetrySchedule ==
    /\ Len(hist) < MaxScheduled
    /\ \E task \in FiringTasks, callback \in {"returns", "std::exception"} :
          scheduleTask(task, callback)
    /\ UNCHANGED <<now, defaultReminderMessage, maxConcurrentTasks, held, console, db, main>>

NextRetry ==
    \/ RetrySchedule
    \/ CheckAndTriggerEvents
    \/ Tick

SpecRetry ==
    /\ Init
    /\ [][NextRetry]_vars
    /\ WF_vars(CheckAndTriggerEvents)
    /\ WF_vars(Tick)

-----------------------------------------------------------------------------
(* SpecCommands: the commands add, schedule, complete, delete and check   *)
(* of the command line working on the database and the scheduler.  The    *)
(* callbacks are the lambdas of handleScheduleTask, which hand the call   *)
(* to a notifier; `inner` is what happened inside the notifier's body     *)
(* ("none" or a std::exception), `answer` whether the database answered.  *)

SendNotification_Unwrapped(inner) ==
    IF inner = "none" THEN "returns" ELSE inner

\* ConsoleNotification::sendNotification: what the call does to its caller.
ConsoleSendNotification(inner) ==
    IF inner = "none" THEN "returns" ELSE "NotificationException"

Recipients == {"user@example.com", "invalid@example.com"}

\* recipient.find("invalid") != std::string::npos
ContainsInvalid(recipient) == recipient = "invalid@example.com"

\* EmailNotification::sendNotification: an EmailDeliveryException, which is a
\* NotificationException, for a failure in the body or an invalid recipient.
EmailSendNotification(recipient, inner) ==
    IF inner # "none" THEN "NotificationException"
    ELSE IF ContainsInvalid(recipient) THEN "NotificationException"
    ELSE "returns"

\* The command stopped before it called the scheduler.
Stopped(text, count) ==
    /\ console' = Printed(text, count)
    /\ last' = NoCall
    /\ UNCHANGED <<events, hist, db>>

handleAddTask(dueDate, answer) ==
    IF InvalidTaskData(0, "d", 0, now, dueDate)
        THEN Stopped("Error: Task error", 0)
    ELSE IF answer = "QueryFailed" THEN Stopped("Error", 0)
    ELSE /\ db' = [db EXCEPT ![last_insert_rowid] =
                       [status |-> "pending", dueDate |-> dueDate]]
         /\ console' = Printed("Task added successfully with ID", last_insert_rowid)
         /\ last' = NoCall
         /\ UNCHANGED <<events, hist>>

scheduleCommand(taskId, callback, answer) ==
    IF answer = "QueryFailed" THEN Stopped("Error", 0)
    ELSE IF taskId \notin getPendingTasks
        THEN Stopped("Task not found or already completed.", taskId)
    ELSE /\ handleScheduleTask(taskFromStatement(taskId), callback)
         /\ UNCHANGED db

\* After the row is gone or completed: cancelTask, called once.
cancelNotifications(taskId, text) ==
    /\ cancelTask(taskId)
    /\ console' = IF last'.result = Ok(TRUE)
                      THEN Printed("Task notifications cancelled", taskId)
                  ELSE Printed(text, taskId)

handleDeleteTask(taskId, answer) ==
    IF answer = "QueryFailed" THEN Stopped("Error", 0)
    ELSE IF taskId \notin getAllTasks THEN Stopped("Task not found with ID", taskId)
    ELSE /\ db' = [db EXCEPT ![taskId] = NoRow]
         /\ cancelNotifications(taskId, "deleted successfully")

handleCompleteTask(taskId, answer) ==
    IF answer = "QueryFailed" THEN Stopped("Error", 0)
    ELSE IF taskId \notin getAllTasks THEN Stopped("Task not found with ID", taskId)
    ELSE IF db[taskId].status = "completed"
        THEN Stopped("Task is already completed.", taskId)
    ELSE /\ db' = [db EXCEPT ![taskId].status = "completed"]
         /\ cancelNotifications(taskId, "marked as completed")

Answers == {"ok", "QueryFailed"}

CmdAdd ==
    /\ last_insert_rowid \in DbIds
    /\ \E dueDate \in 0..MaxTime, answer \in Answers : handleAddTask(dueDate, answer)
    /\ UNCHANGED <<now, defaultReminderMessage, maxConcurrentTasks, held, main>>

CmdSchedule ==
    /\ Len(hist) < MaxLive
    /\ \E taskId \in DbIds, answer \in Answers, inner \in {"none", "std::exception"} :
          \/ scheduleCommand(taskId, ConsoleSendNotification(inner), answer)
          \/ \E recipient \in Recipients :
                scheduleCommand(taskId, EmailSendNotification(recipient, inner), answer)
    /\ UNCHANGED <<now, defaultReminderMessage, maxConcurrentTasks, held, main>>

CmdComplete ==
    /\ \E taskId \in DbIds, answer \in Answers : handleCompleteTask(taskId, answer)
    /\ UNCHANGED <<now, defaultReminderMessage, maxConcurrentTasks, held, main>>

CmdDelete ==
    /\ \E taskId \in DbIds, answer \in Answers : handleDeleteTask(taskId, answer)
    /\ UNCHANGED <<now, defaultReminderMessage, maxConcurrentTasks, held, main>>

CmdCheck ==
    /\ \E pendingTasks \in {"QueryFailed",
                              IF getPendingTasks = {} THEN "empty" ELSE "some"} :
          handleCheckEvents(pendingTasks)
    /\ UNCHANGED <<now, defaultReminderMessage, maxConcurrentTasks, held, db, main>>

NextCommands ==
    \/ CmdAdd
    \/ CmdSchedule
    \/ CmdComplete
    \/ CmdDelete
    \/ CmdCheck
    \/ Tick

SpecCommands == Init /\ [][NextCommands]_vars

-----------------------------------------------------------------------------
(* SpecDemo: the demo program of main.cpp, statement by statement, as far *)
(* as the scheduler is concerned; the statements that only print or only  *)
(* touch the database are left out, and so is task 3, which is never      *)
(* scheduled.  `held` is task1; task2 is not changed before it is         *)
(* scheduled but for its id.  rowid is the id the database gave a task,   *)
(* 0 when addTask failed; inner is what happens inside a notifier.        *)

Polls == 5

\* Task task2(2, ..., 30, now, now + hours(2)), with the id the database gave.
task2 == [Task(2, "d", 30, main.start, main.start + hours(2)) EXCEPT !.id = main.id2]

Goto(pc) == main' = [main EXCEPT !.pc = pc]

mainStep(rowid, inner) ==
    CASE main.pc = "message" ->
            /\ setDefaultReminderMessage("Don't forget about your task!")
            /\ Goto("capacity")
            /\ UNCHANGED <<events, hist, held, maxConcurrentTasks>>
      [] main.pc = "capacity" ->
            /\ setMaxConcurrentTasks(20)
            /\ Goto("task1")
            /\ UNCHANGED <<events, hist, held, defaultReminderMessage>>
      [] main.pc = "task1" ->
            /\ NewTask(1, "d", 15, now, now + hours(1))
            /\ main' = [main EXCEPT !.pc = "id1", !.start = now]
            /\ UNCHANGED <<events, hist, defaultReminderMessage, maxConcurrentTasks>>
      [] main.pc = "id1" ->
            /\ IF rowid = 0 THEN UNCHANGED <<held, last>> ELSE setId(rowid)
            /\ Goto("id2")
            /\ UNCHANGED <<events, hist, defaultReminderMessage, maxConcurrentTasks>>
      [] main.pc = "id2" ->
            /\ main' = [main EXCEPT !.pc = "due",
                                    !.id2 = IF rowid <= 0 THEN @ ELSE rowid]
            /\ UNCHANGED <<events, hist, held, last, defaultReminderMessage,
                           maxConcurrentTasks>>
      [] main.pc = "due" ->
            /\ setDueDate(main.start + seconds(30))
            /\ Goto("offset")
            /\ UNCHANGED <<events, hist, defaultReminderMessage, maxConcurrentTasks>>
      [] main.pc = "offset" ->
            /\ setReminderTimeBefore(15)
            /\ Goto("schedule1")
            /\ UNCHANGED <<events, hist, defaultReminderMessage, maxConcurrentTasks>>
      [] main.pc = "schedule1" ->
            /\ scheduleTask(held, ConsoleSendNotification(inner))
            /\ Goto(IF last'.result.kind = "thrown" THEN "poll" ELSE "schedule2")
            /\ UNCHANGED <<held, defaultReminderMessage, maxConcurrentTasks>>
      [] main.pc = "schedule2" ->
            /\ scheduleTask(task2, EmailSendNotification("user@example.com", inner))
            /\ Goto("poll")
            /\ UNCHANGED <<held, defaultReminderMessage, maxConcurrentTasks>>
      [] main.pc = "poll" /\ main.i < Polls ->
            /\ checkAndTriggerEvents
            /\ main' = [main EXCEPT !.i = @ + 1,
                                    !.pc = IF has_value(last'.result) THEN @ ELSE "done"]
            /\ UNCHANGED <<held, defaultReminderMessage, maxConcurrentTasks>>
      [] main.pc = "poll" /\ main.i >= Polls ->
            /\ Goto("done")
            /\ UNCHANGED <<events, hist, held, last, defaultReminderMessage,
                           maxConcurrentTasks>>
      [] OTHER -> FALSE

MainStep ==
    /\ \E rowid \in 0..2, inner \in {"none", "std::exception"} : mainStep(rowid, inner)
    /\ UNCHANGED <<now, console, db>>

\* Time passes while the program runs, as it does in sleep_for.
NextDemo ==
    \/ MainStep
    \/ Tick

SpecDemo == Init /\ [][NextDemo]_vars

-----------------------------------------------------------------------------
(* SpecLive: the polling loop when no callback fails unexpectedly.  A      *)
(* callback returns or reports a delivery failure; events are scheduled    *)
(* and cancelled at any moment while the clock runs and checks recur.      *)

LiveSchedule ==
    /\ Len(hist) < MaxLive
    /\ \E task \in FiringTasks, callback \in {"returns", "NotificationException"} :
          scheduleTask(task, callback)
    /\ UNCHANGED <<now, defaultReminderMessage, maxConcurrentTasks, held, console, db, main>>

NextLive ==
    \/ LiveSchedule
    \/ CheckAndTriggerEvents
    \/ CancelTask
    \/ Tick

SpecLive ==
    /\ Init
    /\ [][NextLive]_vars
    /\ WF_vars(CheckAndTriggerEvents)
    /\ WF_vars(Tick)

-----------------------------------------------------------------------------
(* Properties.  `last` is the call just made: Tick drops it, so where      *)
(* last.op names an operation, `now` is still the time that call read.     *)

IsSchedule == last.op = "scheduleTask"

IsCheck == last.op = "checkAndTriggerEvents"

\* The events of a registry due now, and those still in the future.
DuePart(evs) == SelectSeq(evs, LAMBDA e : e.triggerTime <= now)

RestPart(evs) == SelectSeq(evs, LAMBDA e : e.triggerTime > now)

\* The events whose callback the last call invoked, in invocation order.
FiredEvents == [i \in 1..Len(last.fired) |-> last.fired[i].event]

NonDecreasing(evs) ==
    \A i, j \in 1..Len(evs) : i < j => evs[i].triggerTime <= evs[j].triggerTime

Unexpected(evs) == \E i \in 1..Len(evs) : evs[i].callback = "std::exception"

\* C1: scheduleTask of a task whose reminder time is after now, with a
\* callback, on a registry below its capacity, returns true and adds exactly
\* one pending event.
C1_ScheduleFutureSucceeds ==
    ( /\ IsSchedule
      /\ last.callback # NullCallback
      /\ last.task.dueDate - last.task.reminderTimeBefore * TicksPerMinute > now
      /\ Len(last.pre) < last.preMax )
    => /\ last.result = Ok(TRUE)
       /\ getPendingEventsCount = Len(last.pre) + 1

C1_Witness ==
    /\ IsSchedule
    /\ last.callback # NullCallback
    /\ last.task.reminderTimeBefore > 0
    /\ last.task.dueDate - last.task.reminderTimeBefore * TicksPerMinute > now
    /\ Len(last.pre) = 1
    /\ last.preMax = 2
    /\ last.result = Ok(TRUE)
    /\ getPendingEventsCount = 2

\* C2 as stated: scheduleTask of a task whose reminder time is not after now
\* always fails with the "reminder already passed" failure and leaves the
\* registry as it was.
C2_Original ==
    ( /\ IsSchedule
      /\ last.task.dueDate - last.task.reminderTimeBefore * TicksPerMinute <= now )
    => /\ last.result = Thrown("TaskSchedulingException")
       /\ events = last.pre

\* C2 amended: scheduleTask of a task whose reminder time is not after now
\* always fails and leaves the registry as it was; the failure is the
\* "reminder already passed" one when the callback is non-null and the
\* registry is below capacity, and a ConstraintViolation error otherwise.
C2_PastReminderFails ==
    ( /\ IsSchedule
      /\ last.task.dueDate - last.task.reminderTimeBefore * TicksPerMinute <= now )
    => /\ ~has_value(last.result)
       /\ events = last.pre
       /\ getPendingEventsCount = Len(last.pre)
       /\ IF last.callback # NullCallback /\ Len(last.pre) < last.preMax
             THEN last.result = Thrown("TaskSchedulingException")
             ELSE last.result = Err("ConstraintViolation")

C2_Witness ==
    /\ IsSchedule
    /\ last.callback # NullCallback
    /\ Len(last.pre) < last.preMax
    /\ last.pre # <<>>
    /\ now > 0
    /\ last.task.dueDate - last.task.reminderTimeBefore * TicksPerMinute = now
    /\ last.result = Thrown("TaskSchedulingException")
    /\ events = last.pre

\* C3: scheduleTask on a registry that holds maxConcurrentTasks events fails
\* with ConstraintViolation and inserts nothing; with the capacity of a fresh
\* scheduler, 10, a call is accepted exactly when fewer than 10 events are
\* pending.
C3_CapacityRejects ==
    IsSchedule =>
        /\ Len(last.pre) >= last.preMax =>
              /\ last.result = Err("ConstraintViolation")
              /\ events = last.pre
        /\ last.preMax = 10 => (has_value(last.result) <=> Len(last.pre) < 10)
        /\ has_value(last.result) => Len(events) = Len(last.pre) + 1

C3_Witness ==
    /\ IsSchedule
    /\ last.preMax = 10
    /\ Len(last.pre) = 10
    /\ Len(hist) = 10
    /\ last.result = Err("ConstraintViolation")
    /\ Len(events) = 10

\* C4: the pending count never exceeds the capacity, and the capacity is at
\* least 1.
C4_CountWithinCapacity ==
    /\ getPendingEventsCount <= getMaxConcurrentTasks
    /\ getMaxConcurrentTasks >= 1

C4_Witness ==
    /\ last.op = "setMaxConcurrentTasks"
    /\ last.result = Ok(TRUE)
    /\ last.preMax > last.arg
    /\ getPendingEventsCount = 2
    /\ getMaxConcurrentTasks = 2

\* C5: a check that finds no event due invokes no callback, returns success
\* and leaves the registry as it was.
C5_NothingDueIsNoOp ==
    (IsCheck /\ DuePart(last.pre) = <<>>)
    => /\ last.fired = <<>>
       /\ last.result = Ok(TRUE)
       /\ events = last.pre
       /\ getPendingEventsCount = Len(last.pre)

C5_Witness ==
    /\ IsCheck
    /\ now > 0
    /\ Len(last.pre) = 2
    /\ DuePart(last.pre) = <<>>
    /\ last.fired = <<>>
    /\ events = last.pre

\* C6 as stated: a check invokes the callbacks in non-decreasing trigger-time
\* order, and all the due events are invoked, in that order, and removed in
\* the one call.
C6_Original ==
    IsCheck =>
        /\ NonDecreasing(FiredEvents)
        /\ FiredEvents = DuePart(last.pre)
        /\ Eids(DuePart(last.pre)) \cap Eids(events) = {}

\* C6 amended: a check invokes the callbacks in non-decreasing trigger-time
\* order; when no callback of a due event raises an unexpected failure, all
\* the due events are invoked, in that order, and removed in the one call,
\* whatever order they were scheduled in.
C6_FiredInTimeOrder ==
    IsCheck =>
        /\ NonDecreasing(FiredEvents)
        /\ ~Unexpected(DuePart(last.pre)) =>
              /\ FiredEvents = DuePart(last.pre)
              /\ Eids(DuePart(last.pre)) \cap Eids(events) = {}

C6_Witness ==
    /\ IsCheck
    /\ Len(last.fired) = 3
    /\ FiredEvents[1].triggerTime < FiredEvents[2].triggerTime
    /\ FiredEvents[2].triggerTime < FiredEvents[3].triggerTime
    /\ FiredEvents[1].eid = 3
    /\ FiredEvents[3].eid = 2
    /\ events = <<>>

\* C7: a check in which no callback raises an unexpected failure invokes the
\* callback of exactly the events due now, each once, and leaves in the
\* registry exactly the events that were pending and are not due yet.
C7_ExactlyTheDueFire ==
    (IsCheck /\ ~Unexpected(DuePart(last.pre)))
    => /\ Eids(FiredEvents) = Eids(DuePart(last.pre))
       /\ Len(last.fired) = Len(DuePart(last.pre))
       /\ \A i \in 1..Len(last.fired) : last.fired[i].event.triggerTime <= now
       /\ events = RestPart(last.pre)

C7_Witness ==
    /\ IsCheck
    /\ ~Unexpected(DuePart(last.pre))
    /\ Len(last.pre) = 3
    /\ Len(last.fired) = 2
    /\ last.fired[2].event.triggerTime = now
    /\ Len(events) = 1
    /\ events[1].triggerTime > now

\* The events of the registry `pre` that come after the event e and are due.
LaterDue(pre, e) ==
    { pre[j].eid : j \in { j \in 1..Len(pre) :
        /\ pre[j].triggerTime <= now
        /\ \E i \in 1..Len(pre) : i < j /\ pre[i].eid = e.eid } }

LaterDueUnexpected(pre, e) ==
    \E j \in 1..Len(pre) :
        /\ pre[j].eid \in LaterDue(pre, e)
        /\ pre[j].callback = "std::exception"

\* C8 as stated: when a callback raises a delivery failure, its event is
\* removed and not invoked again, every later due event is still fired in the
\* same call, and the call returns success.
C8_Original ==
    IsCheck =>
        \A i \in 1..Len(last.fired) :
            last.fired[i].outcome = "NotificationException" =>
                /\ last.fired[i].event.eid \notin Eids(events)
                /\ hist[last.fired[i].event.eid].calls = 1
                /\ LaterDue(last.pre, last.fired[i].event) \subseteq Eids(FiredEvents)
                /\ last.result = Ok(TRUE)

\* C8 amended: when a callback raises a delivery failure, its event is removed
\* and not invoked again, and the pass goes on with the next due event; every
\* later due event is fired in the same call and the call returns success,
\* unless the callback of a later due event raises an unexpected failure.
C8_DeliveryFailureDropsOneEvent ==
    /\ \A eid \in 1..Len(hist) :
          hist[eid].fate = "fired" =>
              /\ eid \notin Eids(events)
              /\ hist[eid].calls = hist[eid].callsAtRemoval
    /\ IsCheck =>
          \A i \in 1..Len(last.fired) :
              last.fired[i].outcome = "NotificationException" =>
                  /\ last.fired[i].event.eid \notin Eids(events)
                  /\ hist[last.fired[i].event.eid].fate = "fired"
                  /\ hist[last.fired[i].event.eid].calls = 1
                  /\ LaterDue(last.pre, last.fired[i].event) # {} => i < Len(last.fired)
                  /\ ~LaterDueUnexpected(last.pre, last.fired[i].event) =>
                        /\ LaterDue(last.pre, last.fired[i].event)
                               \subseteq Eids(FiredEvents)
                        /\ last.result = Ok(TRUE)

C8_Witness ==
    /\ IsCheck
    /\ Len(last.fired) = 3
    /\ last.fired[1].outcome = "NotificationException"
    /\ last.fired[2].outcome = "returns"
    /\ last.fired[3].outcome = "NotificationException"
    /\ last.result = Ok(TRUE)
    /\ events = <<>>

\* The first event of `pre` that is due and whose callback raises an
\* unexpected failure, 0 when there is none.
FirstUnexpected(pre) ==
    LET S == { i \in 1..Len(pre) :
                 pre[i].triggerTime <= now /\ pre[i].callback = "std::exception" }
    IN  IF S = {} THEN 0 ELSE CHOOSE i \in S : \A j \in S : i <= j

\* C9: when the callback of a due event raises an unexpected failure, the
\* pass stops there and the call returns an error; the failing event and all
\* the events after it stay in the registry as they were, no later callback is
\* invoked, and the events fired before it in the call stay removed.
C9_UnexpectedFailureAborts ==
    (IsCheck /\ FirstUnexpected(last.pre) # 0)
    => LET k == FirstUnexpected(last.pre)
       IN  /\ last.result = Err("QueryFailed")
           /\ events = SubSeq(last.pre, k, Len(last.pre))
           /\ FiredEvents = SubSeq(last.pre, 1, k)
           /\ \A i \in 1..(k - 1) : hist[last.pre[i].eid].fate = "fired"
           /\ hist[last.pre[k].eid].fate = "pending"

C9_Witness ==
    /\ IsCheck
    /\ Len(last.pre) = 3
    /\ DuePart(last.pre) = last.pre
    /\ FirstUnexpected(last.pre) = 2
    /\ last.result = Err("QueryFailed")
    /\ Len(last.fired) = 2
    /\ Len(events) = 2

\* C10 as stated: the callback of every event is invoked at most once over
\* all the checks, exactly once if a check processed the event, and never
\* after cancelTask removed the event.
C10_Original ==
    \A eid \in 1..Len(hist) :
        /\ hist[eid].calls <= 1
        /\ hist[eid].fate = "fired" => hist[eid].calls = 1
        /\ hist[eid].fate = "cancelled" => hist[eid].calls = hist[eid].callsAtRemoval

\* C10 amended: a callback is never invoked after its event was removed, by
\* cancelTask or by a check; an invocation that returns or raises a delivery
\* failure removes the event, so an event whose callback raises no unexpected
\* failure is invoked exactly once if a check processes it and never more;
\* an event whose callback raises an unexpected failure stays pending and is
\* invoked again by the later checks that find it due.
C10_NoCallAfterRemoval ==
    \A eid \in 1..Len(hist) :
        /\ hist[eid].fate = "pending" <=> eid \in Eids(events)
        /\ hist[eid].fate = "fired" =>
              hist[eid].calls = 1 /\ hist[eid].callsAtRemoval = 1
        /\ hist[eid].fate = "cancelled" => hist[eid].calls = hist[eid].callsAtRemoval
        /\ \A i \in 1..Len(events) :
              (events[i].eid = eid /\ hist[eid].calls > 0) =>
                  events[i].callback = "std::exception"

C10_Witness ==
    /\ Len(hist) = 3
    /\ \E a, b, c \in 1..3 :
          /\ hist[a].fate = "fired"
          /\ hist[b].fate = "cancelled"
          /\ hist[b].calls = 1
          /\ hist[c].fate = "pending"
          /\ hist[c].calls = 2

-----------------------------------------------------------------------------
(* Cancellation. *)

IsCancel == last.op = "cancelTask"

\* The events of task `taskId` in a registry, in scan order.
OfTask(evs, taskId) == SelectSeq(evs, LAMBDA e : e.task.id = taskId)

\* The events of the other tasks, in scan order.
NotOfTask(evs, taskId) == SelectSeq(evs, LAMBDA e : e.task.id # taskId)

\* C11: cancelTask(id) with id > 0 returns the value false and changes
\* nothing when no pending event has that task id; otherwise it returns true,
\* removes exactly one event, an event of that task, so that the count
\* drops by exactly 1, and leaves the events of every other task as they were.
C11_CancelRemovesOneOfTheTask ==
    (IsCancel /\ last.arg > 0) =>
        IF OfTask(last.pre, last.arg) = <<>>
            THEN /\ last.result = Ok(FALSE)
                 /\ events = last.pre
                 /\ maxConcurrentTasks = last.preMax
                 /\ defaultReminderMessage = last.preMessage
        ELSE /\ last.result = Ok(TRUE)
             /\ getPendingEventsCount = Len(last.pre) - 1
             /\ \E i \in 1..Len(last.pre) :
                    /\ last.pre[i].task.id = last.arg
                    /\ events = EraseAt(last.pre, i)
             /\ NotOfTask(events, last.arg) = NotOfTask(last.pre, last.arg)
             /\ Len(OfTask(events, last.arg)) = Len(OfTask(last.pre, last.arg)) - 1

\* A cancellation removed an event of task 2 that stood between events of
\* other tasks; another one found nothing to remove in a non-empty registry.
C11_Witness ==
    /\ IsCancel
    /\ last.arg = 2
    /\ last.result = Ok(TRUE)
    /\ Len(last.pre) = 3
    /\ last.pre[2].task.id = 2
    /\ last.pre[1].task.id = 1
    /\ last.pre[3].task.id = 0
    /\ Len(events) = 2

\* C12: cancelTask(id) with id <= 0 fails with ConstraintViolation and leaves
\* the registry unchanged, also when an event of a task with id 0 is pending.
C12_NonPositiveIdRejected ==
    (IsCancel /\ last.arg <= 0) =>
        /\ last.result = Err("ConstraintViolation")
        /\ events = last.pre
        /\ maxConcurrentTasks = last.preMax
        /\ defaultReminderMessage = last.preMessage

\* cancelTask(0) was refused while an event of the task with id 0 was pending.
C12_Witness ==
    /\ IsCancel
    /\ last.arg = 0
    /\ last.result = Err("ConstraintViolation")
    /\ OfTask(events, 0) # <<>>

\* C13: when a task has several pending events, one cancelTask(id) removes
\* only the first of them in scan order, which has the smallest trigger time
\* among the task's events; the others stay pending in their order, so k
\* events take k calls; an event that stayed still fires when due.
C13_CancelRemovesFirstMatch ==
    /\ (IsCancel /\ last.result = Ok(TRUE)) =>
            LET mine == OfTask(last.pre, last.arg)
            IN  /\ OfTask(events, last.arg) = Tail(mine)
                /\ \A i \in 1..Len(mine) : mine[1].triggerTime <= mine[i].triggerTime
                /\ hist[mine[1].eid].fate = "cancelled"
                /\ \A i \in 2..Len(mine) : hist[mine[i].eid].fate = "pending"
    /\ (IsCheck /\ has_value(last.result)) =>
            FiredEvents = DuePart(last.pre)

\* Task 1 had three pending events; two calls removed the two earliest, and
\* the third, left pending, has fired.
C13_Witness ==
    /\ IsCheck
    /\ Len(hist) = 3
    /\ hist[1].fate = "cancelled"
    /\ hist[2].fate = "cancelled"
    /\ hist[3].fate = "fired"
    /\ Len(last.fired) = 1
    /\ last.fired[1].event.task.id = 1
    /\ last.fired[1].event.eid = 3

-----------------------------------------------------------------------------
(* The `check` command. *)

\* C14: checkAndTriggerEvents returns the number of events it fired in the
\* call, 0 when none was due, and the `check` command prints "No
\* notifications were due" exactly when that number is 0 and "Triggered N
\* notifications" with N the number of events fired otherwise.
C14_Original ==
    (IsCheck /\ has_value(last.result)) =>
        /\ BoolToInt(last.result.value) = Len(last.fired)
        /\ (console.text = "No notifications were due.") <=> (Len(last.fired) = 0)
        /\ Len(last.fired) > 0 =>
               console = Printed("Triggered N notifications.", Len(last.fired))

-----------------------------------------------------------------------------
(* Configuration setters. *)

\* C15: the configuration setters return a value, never an error, and a
\* rejected call changes nothing.  setMaxConcurrentTasks(n) returns false for
\* n <= 0 and for n below the pending count, and otherwise, n equal to the
\* pending count included, returns true and stores n.
\* setDefaultReminderMessage(m) returns false for the empty string and
\* otherwise returns true and stores m.
C15_SettersRejectWithoutChange ==
    /\ last.op = "setMaxConcurrentTasks" =>
           /\ events = last.pre
           /\ defaultReminderMessage = last.preMessage
           /\ IF last.arg <= 0 \/ last.arg < Len(last.pre)
                  THEN /\ last.result = Ok(FALSE)
                       /\ getMaxConcurrentTasks = last.preMax
              ELSE /\ last.result = Ok(TRUE)
                   /\ getMaxConcurrentTasks = last.arg
    /\ last.op = "setDefaultReminderMessage" =>
           /\ events = last.pre
           /\ getMaxConcurrentTasks = last.preMax
           /\ IF last.arg = ""
                  THEN /\ last.result = Ok(FALSE)
                       /\ defaultReminderMessage = last.preMessage
              ELSE /\ last.result = Ok(TRUE)
                   /\ defaultReminderMessage = last.arg

\* A capacity equal to the pending count of two was accepted and stored.
C15_Witness ==
    /\ last.op = "setMaxConcurrentTasks"
    /\ Len(last.pre) = 2
    /\ last.arg = 2
    /\ last.preMax # 2
    /\ last.result = Ok(TRUE)
    /\ getMaxConcurrentTasks = 2

-----------------------------------------------------------------------------
(* The task copy of an event. *)

\* The pending event with number eid in a registry that holds it.
EventOf(evs, eid) == evs[CHOOSE i \in 1..Len(evs) : evs[i].eid = eid]

\* C16: an event is stored with the trigger time dueDate - reminderOffset,
\* the offset counted in minutes, of the caller's task as it is at the
\* scheduleTask call, and with a copy of that task.  No later step changes
\* the trigger time or the task copy of a pending event, a step that changes
\* the caller's task (setDueDate, setReminderTimeBefore, markCompleted)
\* changes no event at all, and the callback receives the stored copy.
C16_TriggerTimeCapturedByValue ==
    [][ /\ \A eid \in Eids(events') \ Eids(events) :
              /\ EventOf(events', eid).task = held
              /\ EventOf(events', eid).triggerTime =
                      held.dueDate - held.reminderTimeBefore * TicksPerMinute
        /\ \A eid \in Eids(events') \cap Eids(events) :
              EventOf(events', eid) = EventOf(events, eid)
        /\ held' # held => events' = events
        /\ last'.op = "checkAndTriggerEvents" =>
              \A i \in 1..Len(last'.fired) :
                  /\ last'.fired[i].event.eid \in Eids(events)
                  /\ last'.fired[i].event = EventOf(events, last'.fired[i].event.eid)
      ]_vars

\* The callback received the task as scheduled, due at 3 with a reminder one
\* minute before, after the caller had moved its own task's due date, dropped
\* its reminder offset and completed it.
C16_Witness ==
    /\ IsCheck
    /\ Len(last.fired) = 1
    /\ last.fired[1].event.triggerTime = 3 - TicksPerMinute
    /\ last.fired[1].event.task.dueDate = 3
    /\ last.fired[1].event.task.reminderTimeBefore = 1
    /\ ~last.fired[1].event.task.completed
    /\ held.dueDate = 2
    /\ held.reminderTimeBefore = 0
    /\ held.completed

-----------------------------------------------------------------------------
(* Several events of one task. *)

\* The events of a registry that have the task id and trigger time of e.
SameKey(evs, e) ==
    SelectSeq(evs, LAMBDA x : x.task.id = e.task.id /\ x.triggerTime = e.triggerTime)

\* C17: the registry does not deduplicate.  Every accepted scheduleTask adds
\* one pending event, also when events of the same task id, and with the
\* same trigger time, are already pending, and these stay as they were.  In
\* a check that completes, each due event is fired, and its callback called,
\* exactly once.
C17_NoDeduplication ==
    /\ (IsSchedule /\ last.result = Ok(TRUE)) =>
           LET new == EventOf(events, Len(hist))
           IN  /\ getPendingEventsCount = Len(last.pre) + 1
               /\ new.task = last.task
               /\ Len(SameKey(events, new)) = Len(SameKey(last.pre, new)) + 1
               /\ \A i \in 1..Len(last.pre) :
                      \E j \in 1..Len(events) : events[j] = last.pre[i]
    /\ (IsCheck /\ has_value(last.result)) =>
           /\ Len(last.fired) = Len(DuePart(last.pre))
           /\ \A i \in 1..Len(last.fired) :
                  /\ hist[last.fired[i].event.eid].calls = 1
                  /\ \A j \in 1..Len(last.fired) :
                         last.fired[i].event.eid = last.fired[j].event.eid => i = j

\* Three events of task 1 with one trigger time were pending together, and
\* one check has fired all three.
C17_Witness ==
    /\ IsCheck
    /\ Len(last.pre) = 3
    /\ Len(last.fired) = 3
    /\ \A i \in 1..3 :
           /\ last.pre[i].task.id = 1
           /\ last.pre[i].triggerTime = last.pre[1].triggerTime
    /\ events = <<>>

-----------------------------------------------------------------------------
(* The Task object. *)

IsSetter ==
    last.op \in {"setId", "setDescription", "setDueDate", "setReminderTimeBefore",
                 "markCompleted", "markIncomplete"}

\* C18: the Task constructor throws InvalidTaskDataException exactly when
\* id < 0, or the description is empty, or the reminder offset is negative,
\* or dueDate <= createdAt; otherwise the task has the given fields and is
\* not completed.
C18_ConstructorValidates ==
    last.op = "Task" =>
        IF \/ last.task.id < 0
           \/ last.task.description = ""
           \/ last.task.reminderTimeBefore < 0
           \/ last.task.dueDate <= last.task.createdAt
            THEN /\ last.result = Thrown("InvalidTaskDataException")
                 /\ held = NoTask
        ELSE /\ has_value(last.result)
             /\ held.id = last.task.id
             /\ held.description = last.task.description
             /\ held.reminderTimeBefore = last.task.reminderTimeBefore
             /\ held.createdAt = last.task.createdAt
             /\ held.dueDate = last.task.dueDate
             /\ held.completed = FALSE

\* A task with id 0, no reminder offset and a due date one tick after its
\* creation was constructed.
C18_Witness ==
    /\ last.op = "Task"
    /\ has_value(last.result)
    /\ held.id = 0
    /\ held.reminderTimeBefore = 0
    /\ held.createdAt = 1
    /\ held.dueDate = 2
    /\ held.description = "e"

\* C19: a setter given an invalid value (id <= 0, empty description, negative
\* offset, due date not after createdAt) returns false, raises nothing and
\* leaves the task as it was.  So whatever setters and markCompleted or
\* markIncomplete calls were made, the description is not empty, the offset
\* is not negative, the due date is after createdAt, no call changes
\* createdAt, and no call takes a positive id back to 0 or below.
C19_SettersKeepTaskValid ==
    /\ held # NoTask =>
           /\ held.description # ""
           /\ held.reminderTimeBefore >= 0
           /\ held.dueDate > held.createdAt
           /\ held.id >= 0
    /\ IsSetter =>
           /\ has_value(last.result)
           /\ held.createdAt = last.task.createdAt
           /\ last.task.id > 0 => held.id > 0
    /\ (last.op = "setId" /\ last.arg <= 0) =>
           last.result = Ok(FALSE) /\ held = last.task
    /\ (last.op = "setDescription" /\ last.arg = "") =>
           last.result = Ok(FALSE) /\ held = last.task
    /\ (last.op = "setReminderTimeBefore" /\ last.arg < 0) =>
           last.result = Ok(FALSE) /\ held = last.task
    /\ (last.op = "setDueDate" /\ last.arg <= last.task.createdAt) =>
           last.result = Ok(FALSE) /\ held = last.task

\* setId(0) was refused on a task whose id had been set to 2 and whose other
\* fields had been changed and the task completed.
C19_Witness ==
    /\ last.op = "setId"
    /\ last.arg = 0
    /\ last.result = Ok(FALSE)
    /\ held.id = 2
    /\ held.completed
    /\ held.description = "e"
    /\ held.createdAt = 1
    /\ held.dueDate = 2

-----------------------------------------------------------------------------
(* Checks repeated after an aborted pass. *)

\* The check just made was aborted, and the event numbered eid, whose
\* callback returns, is due and was preserved behind the failing event.
PreservedDue(eid) ==
    /\ IsCheck
    /\ ~has_value(last.result)
    /\ \E i \in 2..Len(events) :
           /\ events[i].eid = eid
           /\ events[i].callback = "returns"
           /\ events[i].triggerTime <= now

\* C20: after a check pass aborted by an unexpected callback failure, under
\* repeated checkAndTriggerEvents calls every preserved event, other than the
\* failing one, whose trigger time has passed is eventually fired and
\* removed, even if the failing callback fails the same way on every call.
C20_Original ==
    \A eid \in 1..MaxScheduled :
        [](PreservedDue(eid) => <>(eid <= Len(hist) /\ hist[eid].fate = "fired"))

-----------------------------------------------------------------------------
(* Checks repeated while time advances. *)

\* C21: when time keeps advancing, checkAndTriggerEvents keeps being called
\* and no callback fails unexpectedly, every event that scheduleTask accepted
\* leaves the registry, cancelled or else after exactly one call of its
\* callback, and the registry is in the end empty for good.
C21_EveryEventEventuallyFires ==
    /\ \A eid \in 1..MaxLive :
           []((eid <= Len(hist)) =>
                 <>(/\ eid <= Len(hist)
                    /\ eid \notin Eids(events)
                    /\ \/ hist[eid].fate = "cancelled"
                       \/ hist[eid].fate = "fired" /\ hist[eid].calls = 1))
    /\ <>[](events = <<>>)

\* Two events were scheduled; both have fired, one of them with a delivery
\* failure, and the registry is empty.
C21_Witness ==
    /\ Len(hist) = MaxLive
    /\ \A eid \in 1..MaxLive : hist[eid].fate = "fired"
    /\ IsCheck
    /\ \E i \in 1..Len(last.fired) : last.fired[i].outcome = "NotificationException"
    /\ events = <<>>

-----------------------------------------------------------------------------
(* The commands of the command line. *)

\* C22: after the `complete` or `delete` command has succeeded for task N,
\* no pending event of task N is left in the scheduler, so that no later
\* check fires a reminder for the task, also when the task was scheduled
\* on the console channel and on the email channel.
C22_Original ==
    /\ IsCancel => OfTask(events, last.arg) = <<>>
    /\ IsCheck =>
           \A i \in 1..Len(last.fired) :
               last.fired[i].event.task.id \in getPendingTasks

-----------------------------------------------------------------------------
(* The message of a reminder. *)

\* C24: a fired callback receives the task copy of its event together with
\* the defaultReminderMessage in force at the check, whatever the message
\* was when the event was scheduled; defaultReminderMessage is never empty,
\* so no callback is invoked with an empty message.
C24_MessageInForceAtCheck ==
    /\ defaultReminderMessage # ""
    /\ IsCheck =>
           /\ defaultReminderMessage = last.preMessage
           /\ \A i \in 1..Len(last.fired) :
                  /\ last.fired[i].message = last.preMessage
                  /\ last.fired[i].message # ""
                  /\ \E j \in 1..Len(last.pre) :
                         /\ last.pre[j] = last.fired[i].event
                         /\ last.pre[j].task = last.fired[i].event.task

\* Two events were fired with the message set by setDefaultReminderMessage,
\* not the one the scheduler was constructed with.
C24_Witness ==
    /\ IsCheck
    /\ Len(last.fired) = 2
    /\ last.fired[1].message = "Late"
    /\ last.fired[2].message = "Late"
    /\ DefaultReminderMessage # "Late"

-----------------------------------------------------------------------------
(* The order of the tests of scheduleTask. *)

\* C25: scheduleTask tests the callback, then the capacity, then the
\* reminder time.  A null callback or a full registry gives the returned
\* error ConstraintViolation also when the reminder time has passed; the
\* scheduling failure for a passed reminder time occurs only with a callback
\* and a registry below capacity; a failed call leaves the registry as it was.
C25_GuardOrder ==
    IsSchedule =>
        LET full == Len(last.pre) >= last.preMax
            passed == getReminderTime(last.task) <= now
        IN  /\ (last.callback = NullCallback \/ full) =>
                   last.result = Err("ConstraintViolation")
            /\ (last.result = Thrown("TaskSchedulingException")) <=>
                   (last.callback # NullCallback /\ ~full /\ passed)
            /\ ~has_value(last.result) =>
                   events = last.pre /\ getPendingEventsCount = Len(last.pre)

\* A call on a full registry with a callback and a reminder time already
\* passed was refused with ConstraintViolation.
C25_Witness ==
    /\ IsSchedule
    /\ last.callback # NullCallback
    /\ Len(last.pre) = last.preMax
    /\ Len(last.pre) = 2
    /\ getReminderTime(last.task) < now
    /\ last.result = Err("ConstraintViolation")

-----------------------------------------------------------------------------
(* Cancelling what was accepted; the account of the registry. *)

\* The events whose fate in the history is `fate`.
WithFate(fate) == { eid \in 1..Len(hist) : hist[eid].fate = fate }

\* C26: every event accepted by scheduleTask can be cancelled: as long as an
\* event of task T is pending, cancelTask(T.getId()) returns true, also for
\* a task whose id is 0, which the Task constructor accepts.
C26_Original ==
    (IsCancel /\ OfTask(last.pre, last.arg) # <<>>) => last.result = Ok(TRUE)

\* C26, as the code has it: an accepted event of a task with a positive id
\* can be cancelled, cancelTask(id) returning true as long as an event of
\* the task is pending.  An event of a task with id 0, which the constructor
\* and scheduleTask accept, cannot: cancelTask(0) fails with
\* ConstraintViolation and the event stays pending.
C26_PositiveIdCancellable ==
    (IsCancel /\ OfTask(last.pre, last.arg) # <<>>) =>
        IF last.arg > 0
            THEN /\ last.result = Ok(TRUE)
                 /\ hist[OfTask(last.pre, last.arg)[1].eid].fate = "cancelled"
        ELSE /\ last.arg = 0
             /\ last.result = Err("ConstraintViolation")
             /\ OfTask(events, 0) = OfTask(last.pre, 0)
             /\ \A i \in 1..Len(OfTask(events, 0)) :
                    hist[OfTask(events, 0)[i].eid].fate = "pending"

\* With an accepted event of task 0 pending, the second of two events of
\* task 2 was cancelled.
C26_Witness ==
    /\ IsCancel
    /\ last.arg = 2
    /\ last.result = Ok(TRUE)
    /\ OfTask(events, 2) = <<>>
    /\ OfTask(events, 0) # <<>>
    /\ Cardinality(WithFate("cancelled")) = 2

\* C27: the registry changes only through its three operations.  The
\* number of scheduleTask calls that succeeded equals the pending count plus
\* the events removed by checkAndTriggerEvents plus the cancelTask calls
\* that returned true; a failed scheduleTask or cancelTask and a
\* configuration setter leave the pending events as they were.
C27_RegistryAccount ==
    /\ Len(hist) = getPendingEventsCount + Cardinality(WithFate("fired"))
                                         + Cardinality(WithFate("cancelled"))
    /\ Eids(events) = WithFate("pending")
    /\ (IsSchedule /\ last.result # Ok(TRUE)) => events = last.pre
    /\ (IsCancel /\ last.result # Ok(TRUE)) => events = last.pre
    /\ last.op \in {"setMaxConcurrentTasks", "setDefaultReminderMessage"} =>
           events = last.pre

\* Of three events scheduled one was cancelled, one has fired and one is
\* pending, and the call just made, a setter, was refused.
C27_Witness ==
    /\ Len(hist) = 3
    /\ Cardinality(WithFate("cancelled")) = 1
    /\ Cardinality(WithFate("fired")) = 1
    /\ getPendingEventsCount = 1
    /\ last.op = "setMaxConcurrentTasks"
    /\ last.result = Ok(FALSE)

-----------------------------------------------------------------------------
(* Callbacks that delegate to the notifiers. *)

\* C28: when every callback hands the call to
\* ConsoleNotification::sendNotification or
\* EmailNotification::sendNotification, checkAndTriggerEvents never returns
\* an error: a failure inside a channel reaches the scheduler as a
\* delivery failure, and each pass removes every due event, one dropped for
\* an invalid recipient not keeping the others from being fired.
C28_NotifierCallbacksNeverAbort ==
    /\ \A i \in 1..Len(events) :
           events[i].callback \in {"returns", "NotificationException"}
    /\ IsCheck =>
           /\ last.result = Ok(TRUE)
           /\ DuePart(events) = <<>>
           /\ Len(last.fired) = Len(DuePart(last.pre))
           /\ \A i \in 1..Len(last.fired) :
                  hist[last.fired[i].event.eid].fate = "fired"

\* One pass dropped an event whose notifier failed and then fired the next.
C28_Witness ==
    /\ IsCheck
    /\ Len(last.fired) = 2
    /\ last.fired[1].outcome = "NotificationException"
    /\ last.fired[2].outcome = "returns"
    /\ last.result = Ok(TRUE)
    /\ events = <<>>

-----------------------------------------------------------------------------
(* The demo program. *)

\* C29: in the demo program task 1, its due date moved to 30 seconds after
\* the start and its reminder set to 15, is accepted by scheduleTask; task 2
\* is then scheduled on the email channel; task 1's reminder fires during
\* the five polling checks, and the event of task 2 is left pending.
C29_Original ==
    /\ main.pc \in {"schedule2", "poll", "done"} =>
           /\ Len(hist) >= 1
           /\ hist[1].fate = "fired" \/ OfTask(events, held.id) # <<>>
    /\ main.pc = "done" =>
           /\ Len(hist) = 2
           /\ hist[1].fate = "fired"
           /\ hist[2].fate = "pending"
           /\ Len(events) = 1
           /\ events[1].task.id = main.id2

====
